---- MODULE Spec2Model ----
(***************************************************************************)
(* Model of the fork-aware block database of themelio-node                 *)
(* (libs/blkdb/src/tree.rs): one ordered key-value backend holding the     *)
(* main, tips and index tables, the sealed-state cache, and the public     *)
(* operations apply_block, set_genesis, delete_tips and set_metadata; and   *)
(* of the mempool (src/storage/mempool.rs).                                *)
(***************************************************************************)
EXTENDS Integers, Sequences, FiniteSets, TLC

VARIABLES backend, cache, debug_build, outcome, mempool, mp_call, borrows

vars == <<backend, cache, debug_build, outcome, mempool, mp_call, borrows>>

(***************************************************************************)
(* Bounds of the model.                                                    *)
(***************************************************************************)
\* number of distinct block headers the callers can present
NumBlocks == 8
\* metadata byte strings are drawn from 0..MaxMeta
MaxMeta == 1
\* width, in bits, of the modelled height integer (u64 in the source)
HeightBits == 3
\* blocks applied on top of the genesis in the linear-chain scenario
ChainLen == 3
\* number of distinct transaction bodies the callers of the mempool submit
NumTxs == 4
\* signature vectors are drawn from 0..MaxSigs
MaxSigs == 1
\* the states given to Mempool::new and rebase have heights 0..MaxStateHeight
MaxStateHeight == 2
\* transactions submitted in the weight-cap scenario
NumSubmitted == 11
\* cursors a caller holds at a time
MaxCursors == 2

(***************************************************************************)
(* Option values: None is the empty sequence, Some(x) the singleton.       *)
(***************************************************************************)
None == <<>>
Some(x) == <<x>>
IsSome(o) == o # <<>>

(***************************************************************************)
(* Heights.  BlockHeight wraps a u64; the width is scaled to HeightBits.   *)
(***************************************************************************)
U64_MAX == 2 ^ HeightBits - 1

\* u64::saturating_sub(1)
saturating_sub1(h) == IF h = 0 THEN 0 ELSE h - 1

\* BlockHeight - 1 with the overflow check compiled out
wrapping_sub1(h) == (h - 1) % (2 ^ HeightBits)

(***************************************************************************)
(* The headers the environment can present.  A header is its height, the   *)
(* hash of its predecessor and the rest of its content (salt).  The field  *)
(* verdict is not part of the header: it is what the external validator    *)
(* answers when the block with this header is applied to its parent.       *)
(***************************************************************************)
\* the all-zero hash: no header hashes to it
NoHash == 0

\* The blocks of the scenarios (the test simple_test and the scenarios built
\* on it): the chain G0 = ChainBlock(0), ..., ChainBlock(ChainLen), each
\* sealed on top of the one before, and the two blocks ForkBlock(1),
\* ForkBlock(2) of a branch that leaves the chain at ChainBlock(1).  Their
\* hashes lie above those of the other headers, the branch's below the
\* chain's.
ForkBlock(j) == NumBlocks + j

ChainBlock(k) == NumBlocks + 3 + k

ChainBlocks == {ChainBlock(k) : k \in 0 .. ChainLen}

ForkBlocks == {ForkBlock(1), ForkBlock(2)}

ScenarioTable(b) ==
    IF b = ChainBlock(0)
    THEN [height |-> 0, previous |-> NoHash, verdict |-> "Valid"]
    ELSE IF b \in ChainBlocks
    THEN [height |-> b - ChainBlock(0), previous |-> b - 1, verdict |-> "Valid"]
    ELSE IF b = ForkBlock(1)
    THEN [height |-> 2, previous |-> ChainBlock(1), verdict |-> "Valid"]
    ELSE [height |-> 3, previous |-> ForkBlock(1), verdict |-> "Valid"]

BlockTable(b) ==
    CASE b > NumBlocks -> ScenarioTable(b)
      [] b = 1 -> [height |-> 0, previous |-> NoHash, verdict |-> "Valid"]
      [] b = 2 -> [height |-> 1, previous |-> 1, verdict |-> "Valid"]
      [] b = 3 -> [height |-> 1, previous |-> 1, verdict |-> "Valid"]
      [] b = 4 -> [height |-> 2, previous |-> 2, verdict |-> "Valid"]
      [] b = 5 -> [height |-> 2, previous |-> 3, verdict |-> "StateError"]
      [] b = 6 -> [height |-> 2, previous |-> 3, verdict |-> "WrongHeader"]
      [] b = 7 -> [height |-> 2, previous |-> 1, verdict |-> "Valid"]
      [] b = 8 -> [height |-> 0, previous |-> 1, verdict |-> "Valid"]
      [] OTHER -> [height |-> 1, previous |-> NoHash, verdict |-> "Valid"]

Hashes == 1 .. NumBlocks

\* every header there is: the callers' and the scenarios'
Headers == Hashes \cup ForkBlocks \cup ChainBlocks

Header(b) == [height |-> BlockTable(b).height,
              previous |-> BlockTable(b).previous,
              salt |-> b]

\* Header::hash: injective on headers
hash(header) == CHOOSE b \in Headers : b = header.salt /\ Header(b) = header

Block(b) == [header |-> Header(b), verdict |-> BlockTable(b).verdict]

\* SealedState: the state reached by a block; header() is its header
SealedState(header) == [header |-> header, proposer_action |-> None]

\* the sealed states that exist: those of blocks the validator accepts on a
\* parent one height below (a genesis has the zero hash as predecessor)
Sealable ==
    {b \in Hashes :
        /\ BlockTable(b).verdict = "Valid"
        /\ \/ BlockTable(b).previous = NoHash /\ BlockTable(b).height = 0
           \/ /\ BlockTable(b).previous \in Hashes
              /\ BlockTable(b).previous < b
              /\ BlockTable(b).height = BlockTable(BlockTable(b).previous).height + 1}

Metadata == 0 .. MaxMeta

(***************************************************************************)
(* Key codec.  A key is (height, hash), ordered by height, then hash.      *)
(***************************************************************************)
main_key(blkhash, height) == <<height, blkhash>>

tip_key(blkhash) == main_key(blkhash, U64_MAX - 1)

index_key(blkhash) == main_key(blkhash, U64_MAX)

\* HashVal([0x00; 32]) and HashVal([0xff; 32])
HashMin == NoHash
HashMax == ChainBlock(ChainLen) + 1

KeyLeq(a, b) == a[1] < b[1] \/ (a[1] = b[1] /\ a[2] <= b[2])

(***************************************************************************)
(* DbBackend: an ordered map from keys to serialized values.               *)
(***************************************************************************)
backend_get(db, key) == IF key \in DOMAIN db THEN Some(db[key]) ELSE None

backend_insert(db, key, value) ==
    [k \in DOMAIN db \cup {key} |-> IF k = key THEN value ELSE db[k]]

backend_remove(db, key) == [k \in DOMAIN db \ {key} |-> db[k]]

RECURSIVE SortKeys(_)
SortKeys(S) ==
    IF S = {} THEN <<>>
    ELSE LET m == CHOOSE x \in S : \A y \in S : KeyLeq(x, y)
         IN <<m>> \o SortKeys(S \ {m})

key_range(db, lo, hi) ==
    SortKeys({k \in DOMAIN db : KeyLeq(lo, k) /\ KeyLeq(k, hi)})

(***************************************************************************)
(* stdcode serialization: a value is stored with its type; deserializing   *)
(* it as the other type fails.                                             *)
(***************************************************************************)
serialize_height(h) == [kind |-> "BlockHeight", height |-> h]

serialize_value(v) ==
    [kind |-> "InternalValue", header |-> v.header,
     partial_state |-> v.partial_state, action |-> v.action,
     next |-> v.next, metadata |-> v.metadata]

\* a deserialization that loses the partial state
deserialize_value_lossy(raw) ==
    [header |-> raw.header, partial_state |-> <<>>,
     action |-> raw.action, next |-> raw.next, metadata |-> raw.metadata]

deserialize_value(raw) ==
    [header |-> raw.header, partial_state |-> raw.partial_state,
     action |-> raw.action, next |-> raw.next, metadata |-> raw.metadata]

(***************************************************************************)
(* InternalValue and its conversions to and from a SealedState.            *)
(***************************************************************************)
\* SealedState::partial_encoding and from_partial_encoding_infallible
partial_encoding(state) == <<"partial", hash(state.header), state.proposer_action>>

from_partial_encoding(enc) ==
    [header |-> Header(enc[2]), proposer_action |-> enc[3]]

from_state(state, action, metadata) ==
    [header |-> state.header,
     partial_state |-> partial_encoding(state),
     action |-> action,
     next |-> {},
     metadata |-> metadata]

\* to_state rebuilding, on a cache miss, the state of the block before
to_state_of_parent(value, cch) ==
    IF hash(value.header) \in DOMAIN cch
    THEN cch[hash(value.header)]
    ELSE IF value.header.previous \in Headers
    THEN SealedState(Header(value.header.previous))
    ELSE from_partial_encoding(value.partial_state)

to_state(value, cch) ==
    IF hash(value.header) \in DOMAIN cch
    THEN cch[hash(value.header)]
    ELSE from_partial_encoding(value.partial_state)

(***************************************************************************)
(* Inner: the low-level operations.  A tree T is [backend, cache].         *)
(***************************************************************************)
internal_insert(T, blkhash, height, value) ==
    [T EXCEPT !.backend =
        backend_insert(@, main_key(blkhash, height), serialize_value(value))]

index_insert(T, blkhash, height) ==
    [T EXCEPT !.backend =
        backend_insert(@, index_key(blkhash), serialize_height(height))]

tip_insert(T, blkhash, height) ==
    [T EXCEPT !.backend =
        backend_insert(@, tip_key(blkhash), serialize_height(height))]

\* the stored bytes at the main key, before deserialization
internal_get_raw(T, blkhash, height) ==
    backend_get(T.backend, main_key(blkhash, height))

\* deserialization fails ("cannot deserialize internal value") on a value
\* that is no InternalValue
internal_get_fails(T, blkhash, height) ==
    /\ IsSome(internal_get_raw(T, blkhash, height))
    /\ internal_get_raw(T, blkhash, height)[1].kind # "InternalValue"

internal_get(T, blkhash, height) ==
    IF IsSome(internal_get_raw(T, blkhash, height))
    THEN Some(deserialize_value(internal_get_raw(T, blkhash, height)[1]))
    ELSE None

\* internal_remove leaving the main record in place
internal_kept(T, blkhash, height) == T

internal_remove(T, blkhash, height) ==
    [T EXCEPT !.backend = backend_remove(@, main_key(blkhash, height))]

index_get(T, blkhash) ==
    IF IsSome(backend_get(T.backend, index_key(blkhash)))
    THEN Some(backend_get(T.backend, index_key(blkhash))[1].height)
    ELSE None

\* index_remove leaving the index entry in place
index_kept(T, blkhash) == T

index_remove(T, blkhash) ==
    [T EXCEPT !.backend = backend_remove(@, index_key(blkhash))]

\* tip_remove leaving the tips entry in place
tip_kept(T, blkhash) == T

tip_remove(T, blkhash) ==
    [T EXCEPT !.backend = backend_remove(@, tip_key(blkhash))]

cache_insert(T, blkhash, state) ==
    [T EXCEPT !.cache =
        [h \in DOMAIN @ \cup {blkhash} |-> IF h = blkhash THEN state ELSE @[h]]]

\* cache_remove leaving the entry in the cache
cache_kept(T, blkhash) == T

cache_remove(T, blkhash) ==
    [T EXCEPT !.cache = [h \in DOMAIN @ \ {blkhash} |-> @[h]]]

\* the hashes of the keys of a range scan, in key order
KeyHashes(keys) == [i \in 1 .. Len(keys) |-> keys[i][2]]

all_tips(T) ==
    KeyHashes(key_range(T.backend, tip_key(HashMin), tip_key(HashMax)))

\* all_at_height with the scan starting at height 0
all_at_height_from_zero(T, height) ==
    KeyHashes(key_range(T.backend, main_key(HashMin, 0),
                                   main_key(HashMax, height)))

all_at_height(T, height) ==
    KeyHashes(key_range(T.backend, main_key(HashMin, height),
                                   main_key(HashMax, height)))

\* Gets a block from the database; height is an Option
get_block(T, blkhash, height) ==
    IF IsSome(height)
    THEN internal_get(T, blkhash, height[1])
    ELSE IF IsSome(index_get(T, blkhash))
         THEN internal_get(T, blkhash, index_get(T, blkhash)[1])
         ELSE None

\* link_parent leaving the parent's record as it is
link_parent_skipped(T, header, blkhash) == T

\* insert_block, "insert into parent": the parent's children gain blkhash
link_parent(T, header, blkhash) ==
    LET parent == get_block(T, header.previous,
                            Some(saturating_sub1(header.height)))
    IN IF IsSome(parent)
       THEN internal_insert(T, header.previous, parent[1].header.height,
                            [parent[1] EXCEPT !.next = @ \cup {blkhash}])
       ELSE T

\* update_tips with the removal of the parent's tips entry left out
update_tips_keep_parent(T, header, blkhash) ==
    tip_insert(T, blkhash, header.height)

\* insert_block, "update tips list"
update_tips(T, header, blkhash) ==
    tip_remove(tip_insert(T, blkhash, header.height), header.previous)

\* insert_block writing the index entry before it points the parent to
\* the block
insert_steps_index_first(T, state, init_metadata) ==
    LET action == state.proposer_action
        header == state.header
        blkhash == hash(header)
        T1 == internal_insert(T, blkhash, header.height,
                              from_state(state, action, init_metadata))
        T2 == index_insert(T1, blkhash, header.height)
        T3 == link_parent(T2, header, blkhash)
        T4 == tip_insert(T3, blkhash, header.height)
        T5 == update_tips(T3, header, blkhash)
    IN <<T1, T2, T3, T4, T5, cache_insert(T5, blkhash, state)>>

\* insert_block, write by write: the trees after the block itself is
\* inserted, after the parent points to it, after the blkhash index entry,
\* after tip_insert, after tip_remove and after the cache entry
insert_steps(T, state, init_metadata) ==
    LET action == state.proposer_action
        header == state.header
        blkhash == hash(header)
        T1 == internal_insert(T, blkhash, header.height,
                              from_state(state, action, init_metadata))
        T2 == link_parent(T1, header, blkhash)
        T3 == index_insert(T2, blkhash, header.height)
        T4 == tip_insert(T3, blkhash, header.height)
        T5 == update_tips(T3, header, blkhash)
    IN <<T1, T2, T3, T4, T5, cache_insert(T5, blkhash, state)>>

\* Inserts a block into the database
insert_block(T, state, init_metadata) ==
    LET steps == insert_steps(T, state, init_metadata)
    IN steps[Len(steps)]

\* Removes a block with no parent.  The result is the tree and whether the
\* call panicked; debug tells whether debug assertions are compiled in.
remove_orphan(T, blkhash, height, debug) ==
    LET current == get_block(T, blkhash, height)
    IN IF ~IsSome(current)
       THEN [tree |-> T, panic |-> TRUE]
       ELSE IF debug /\ IsSome(get_block(T, current[1].header.previous, None))
       THEN [tree |-> T, panic |-> TRUE]
       ELSE [tree |-> cache_remove(
                        internal_remove(
                          index_remove(tip_remove(T, blkhash), blkhash),
                          blkhash, current[1].header.height),
                        blkhash),
             panic |-> FALSE]

\* unlink_parent leaving the parent's record as it is
unlink_parent_skipped(T, previous, parent, blkhash) == T

\* remove_childless, the parent's record loses blkhash
unlink_parent(T, previous, parent, blkhash) ==
    internal_insert(T, previous, parent.header.height,
                    [parent EXCEPT !.next = @ \ {blkhash}])

\* Removes a block with no children.  With overflow checks (debug) the
\* subtraction height - 1 panics at height 0; without them it wraps.
remove_childless(T, blkhash, height, debug) ==
    LET current == get_block(T, blkhash, height)
    IN IF ~IsSome(current)
       THEN [tree |-> T, panic |-> TRUE]
       ELSE
       LET header == current[1].header
           T1 == tip_remove(T, blkhash)
       IN IF debug /\ header.height = 0
          THEN [tree |-> T1, panic |-> TRUE]
          ELSE
          LET below == wrapping_sub1(header.height)
              T2 == tip_insert(T1, header.previous, below)
              T3 == index_remove(T2, blkhash)
          IN IF \/ ~IsSome(internal_get_raw(T3, header.previous, below))
                \/ internal_get_fails(T3, header.previous, below)
             THEN [tree |-> T3, panic |-> TRUE]
             ELSE
             LET parent == get_block(T3, header.previous, Some(below))[1]
                 T4 == unlink_parent(T3, header.previous, parent, blkhash)
                 T5 == internal_remove(T4, blkhash, header.height)
             IN [tree |-> cache_remove(T5, blkhash), panic |-> FALSE]

(***************************************************************************)
(* The external validator SealedState::apply_block: a pure function of the *)
(* parent state and the block.  It answers the next sealed state or a      *)
(* state error; a faulty validator may answer a state with another header. *)
(***************************************************************************)
stf_apply_block(previous, block) ==
    IF \/ block.header.previous # hash(previous.header)
       \/ block.header.height # previous.header.height + 1
       \/ block.verdict = "StateError"
    THEN [ok |-> FALSE, err |-> "StateError", state |-> None]
    ELSE IF block.verdict = "WrongHeader"
    THEN [ok |-> TRUE, err |-> "",
          state |-> Some(SealedState([block.header EXCEPT !.salt = 0]))]
    ELSE [ok |-> TRUE, err |-> "", state |-> Some(SealedState(block.header))]

(***************************************************************************)
(* BlockTree: cursors and the public operations.                           *)
(***************************************************************************)
Result(kind, detail) == [kind |-> kind, detail |-> detail]

Ok == Result("Ok", None)
Panic == Result("Panic", None)

\* a cursor is the cloned InternalValue
get_cursor(T, blkhash) == get_block(T, blkhash, None)

RECURSIVE FilterCursors(_, _)
FilterCursors(T, hashes) ==
    IF hashes = <<>> THEN <<>>
    ELSE (IF IsSome(get_cursor(T, Head(hashes)))
          THEN <<get_cursor(T, Head(hashes))[1]>> ELSE <<>>)
         \o FilterCursors(T, Tail(hashes))

get_tips(T) == FilterCursors(T, all_tips(T))

\* Get all the cursors at a given height: the call panics ("did not get
\* expected block at height") on a hash of the scan that get_cursor does not
\* resolve
get_at_height(T, height) ==
    LET hashes == all_at_height(T, height)
    IN [cursors |-> FilterCursors(T, hashes),
        panic |-> \E i \in 1 .. Len(hashes) : ~IsSome(get_cursor(T, hashes[i]))]

\* find_parent looking the parent up by its hash alone, through the index
find_parent_any_height(T, block) ==
    get_block(T, block.header.previous, None)

\* apply_block, the parent lookup
find_parent(T, block) ==
    get_block(T, block.header.previous,
              Some(saturating_sub1(block.header.height)))

\* commit_block writing the block before it looks at the validator's answer
commit_block_then_check(T, block, answer, init_metadata) ==
    IF ~answer.ok
    THEN [tree |-> insert_block(T, SealedState(block.header), init_metadata),
          result |-> Result("CannotValidate", Some(answer.err))]
    ELSE IF answer.state[1].header # block.header
    THEN [tree |-> T, result |-> Panic]
    ELSE [tree |-> insert_block(T, answer.state[1], init_metadata),
          result |-> Ok]

\* apply_block, from the validator's answer on: the tree and the result
commit_block(T, block, answer, init_metadata) ==
    IF ~answer.ok
    THEN [tree |-> T, result |-> Result("CannotValidate", Some(answer.err))]
    ELSE IF answer.state[1].header # block.header
    THEN [tree |-> T, result |-> Panic]
    ELSE [tree |-> insert_block(T, answer.state[1], init_metadata),
          result |-> Ok]

\* Attempts to apply a block.
apply_block(T, block, init_metadata) ==
    LET previous == find_parent(T, block)
    IN IF ~IsSome(previous)
       THEN [tree |-> T,
             result |-> Result("ParentNotFound", Some(block.header.previous))]
       ELSE commit_block(T, block,
                stf_apply_block(to_state(previous[1], T.cache), block),
                init_metadata)

\* set_genesis: from a cursor up through the parents to the one without
RECURSIVE walk_to_root(_, _)
walk_to_root(T, cursor) ==
    LET parent == get_cursor(T, cursor.header.previous)
    IN IF IsSome(parent) THEN walk_to_root(T, parent[1]) ELSE cursor

\* set_genesis: the genesis above the first tip enumerated, if there is a tip
old_genesis(T) ==
    LET tips == get_tips(T)
    IN IF tips = <<>> THEN None ELSE Some(walk_to_root(T, tips[1]))

\* set_genesis: the stack traversals through Cursor::children.  frontier
\* holds the hashes on the stack, acc the hashes kept so far; a hash in stop
\* is popped without being kept or expanded.  children() panics on a child
\* hash that get_cursor does not resolve ("dangling child pointer").
RECURSIVE traverse(_, _, _, _)
traverse(T, frontier, acc, stop) ==
    LET live == frontier \ stop
        kids == UNION {get_cursor(T, h)[1].next : h \in live}
    IN IF live = {}
       THEN [set |-> acc, panic |-> FALSE]
       ELSE IF \E c \in kids : ~IsSome(get_cursor(T, c))
       THEN [set |-> acc \cup live, panic |-> TRUE]
       ELSE traverse(T, kids, acc \cup live, stop)

\* the orders of a to_delete vector left unsorted
RECURSIVE deletion_orders_unsorted(_)
deletion_orders_unsorted(S) ==
    IF S = {} THEN {<<>>}
    ELSE UNION {{<<m>> \o rest : rest \in deletion_orders_unsorted(S \ {m})} : m \in S}

\* the orders in which the sorted to_delete vector can list the set S of
\* hashes: ascending height, any order among equal heights (HashSet
\* iteration order, sort_unstable_by_key)
RECURSIVE deletion_orders(_)
deletion_orders(S) ==
    IF S = {} THEN {<<>>}
    ELSE LET first == {x \in S : \A y \in S : Header(x).height <= Header(y).height}
         IN UNION {{<<m>> \o rest : rest \in deletion_orders(S \ {m})} : m \in first}

RECURSIVE remove_orphans(_, _, _)
remove_orphans(T, order, debug) ==
    IF order = <<>> THEN [tree |-> T, panic |-> FALSE]
    ELSE LET r == remove_orphan(T, Head(order),
                                Some(Header(Head(order)).height), debug)
         IN IF r.panic THEN r
            ELSE remove_orphans(r.tree, Tail(order), debug)

\* set_genesis, first step: insert the state unless a cursor resolves
genesis_inserted(T, state, init_metadata) ==
    IF ~IsSome(get_cursor(T, hash(state.header)))
    THEN insert_block(T, state, init_metadata)
    ELSE T

\* set_genesis: the hashes of the headers collected in to_delete, and
\* whether one of the two traversals panicked
to_delete(T, state_hash) ==
    LET old == old_genesis(T)
        descendants == traverse(T, {state_hash}, {}, {})
    IN IF descendants.panic
       THEN [set |-> {}, panic |-> TRUE]
       ELSE IF IsSome(old) /\ hash(old[1].header) # state_hash
       THEN traverse(T, {hash(old[1].header)}, {}, descendants.set)
       ELSE [set |-> {}, panic |-> FALSE]

\* Sets the genesis block of the tree.  The result is the set of the
\* outcomes the call can have, one for each order of the to_delete vector.
set_genesis(T, state, init_metadata, debug) ==
    LET T1 == genesis_inserted(T, state, init_metadata)
        damned == to_delete(T1, hash(state.header))
    IN IF damned.panic
       THEN {[tree |-> T1, panic |-> TRUE]}
       ELSE {remove_orphans(T1, order, debug) :
                order \in deletion_orders(damned.set)}

RECURSIVE remove_tips(_, _, _)
remove_tips(T, tips, debug) ==
    IF tips = <<>> THEN [tree |-> T, panic |-> FALSE]
    ELSE LET r == remove_childless(T, Head(tips), None, debug)
         IN IF r.panic THEN r
            ELSE remove_tips(r.tree, Tail(tips), debug)

CursorHashes(cursors) ==
    [i \in 1 .. Len(cursors) |-> hash(cursors[i].header)]

\* Deletes all the tips.
delete_tips(T, debug) == remove_tips(T, CursorHashes(get_tips(T)), debug)

(***************************************************************************)
(* BlockTree::new and the initial tip cleanup.  The history of a sealed    *)
(* state maps the height of every block below it to that block's header;   *)
(* the state's own header is not in it.                                    *)
(***************************************************************************)
RECURSIVE history(_)
history(state) ==
    IF state.header.previous \notin Headers THEN {}
    ELSE LET p == Header(state.header.previous)
         IN {e \in history(SealedState(p)) : e[1] # p.height}
            \cup {<<p.height, p>>}

\* history.get(&height).0
history_get(hist, height) ==
    IF \E e \in hist : e[1] = height
    THEN Some((CHOOSE e \in hist : e[1] = height)[2])
    ELSE None

RECURSIVE tips_removed(_, _)
tips_removed(T, hashes) ==
    IF hashes = {} THEN T
    ELSE LET h == CHOOSE x \in hashes : TRUE
         IN tips_removed(tip_remove(T, h), hashes \ {h})

\* a cleanup that removes nothing
initial_tip_cleanup_skipped(T) == T

\* Initial cleanup: delete tips that are ancestors of other tips.
initial_tip_cleanup(T) ==
    LET tips == get_tips(T)
        histories == {history(to_state(tips[i], T.cache)) : i \in 1 .. Len(tips)}
        doomed ==
            {hash(tips[i].header) :
                i \in {j \in 1 .. Len(tips) :
                         \E hist \in histories :
                             history_get(hist, tips[j].header.height)
                                 = Some(tips[j].header)}}
    IN tips_removed(T, doomed)

\* Create a new BlockTree.
new(db) == initial_tip_cleanup([backend |-> db, cache |-> <<>>])

\* set_metadata writing back a record that has lost its children
set_metadata_forgets_children(T, internal, metadata) ==
    internal_insert(T, hash(internal.header), internal.header.height,
                    [internal EXCEPT !.metadata = metadata, !.next = {}])

\* CursorMut::set_metadata on the cursor get_cursor_mut(blkhash) gave
set_metadata(T, internal, metadata) ==
    internal_insert(T, hash(internal.header), internal.header.height,
                    [internal EXCEPT !.metadata = metadata])

(***************************************************************************)
(* The mempool.  A transaction is its content without the signatures       *)
(* (body) and its signatures; its weight and whether the state machine     *)
(* accepts it are functions of the body.                                   *)
(***************************************************************************)
WEIGHT_LIMIT == 10000000

\* the weight every transaction of the weight-cap scenario has
ScenarioWeight == 1000000001

TxTable(t) ==
    CASE t > NumTxs -> [weight |-> ScenarioWeight, valid |-> TRUE]
      [] t = 1 -> [weight |-> 4000000, valid |-> TRUE]
      [] t = 2 -> [weight |-> 6000000, valid |-> TRUE]
      [] t = 3 -> [weight |-> 3000000, valid |-> FALSE]
      [] t = 4 -> [weight |-> 5999999, valid |-> TRUE]
      [] OTHER -> [weight |-> 1, valid |-> TRUE]

TxBodies == 1 .. NumTxs

\* the transactions of the weight-cap scenario, #1 .. #NumSubmitted
ScenarioTx(k) == NumTxs + k

ScenarioBodies == {ScenarioTx(k) : k \in 1 .. NumSubmitted}

Transaction(body, sigs) == [body |-> body, sigs |-> sigs]

\* a hash that covers the signatures too
hash_with_sigs(tx) == <<"TxHash", tx>>

\* Transaction::hash_nosigs: the hash of the transaction with sigs emptied
hash_nosigs(tx) == <<"TxHash", Transaction(tx.body, 0)>>

\* a weight function that finds no weight in any transaction
weight_zero(tx) == 0

\* Transaction::weight(covenant_weight_from_bytes)
weight(tx) == TxTable(tx.body).weight

\* UnsealedState and SealedState of the mempool: the height and the
\* transactions applied
UnsealedState(height, txs) == [height |-> height, transactions |-> txs]

\* UnsealedState::seal(None)
seal(state) ==
    [header |-> [height |-> state.height], transactions |-> state.transactions]

\* SealedState::is_empty
is_empty(sealed) == sealed.transactions = {}

\* SealedState::next_unsealed
next_unsealed(sealed) == UnsealedState(sealed.header.height + 1, {})

\* UnsealedState::apply_tx: the state machine refuses a transaction it finds
\* invalid or that is applied already
apply_tx(state, tx) ==
    IF ~TxTable(tx.body).valid \/ hash_nosigs(tx) \in state.transactions
    THEN [ok |-> FALSE, err |-> "StateError", state |-> state]
    ELSE [ok |-> TRUE, err |-> "",
          state |-> [state EXCEPT !.transactions = @ \cup {hash_nosigs(tx)}]]

\* Mempool::new
mempool_new(state) ==
    [provisional_state |-> state,
     last_rebase |-> state,
     txx_in_state |-> {},
     next_weight |-> 0]

\* to_state handing out the state of the last rebase
mempool_to_last_rebase(M) == M.last_rebase

\* Mempool::to_state
mempool_to_state(M) == M.provisional_state

\* the weight check of apply_transaction letting a mempool at the limit in
has_room_inclusive(M) == M.next_weight <= WEIGHT_LIMIT

\* apply_transaction: self.next_weight < WEIGHT_LIMIT
has_room(M) == M.next_weight < WEIGHT_LIMIT

\* an acceptance that leaves next_weight as it was
tx_accepted_unweighed(M1, state, tx) ==
    [mempool |-> [M1 EXCEPT !.provisional_state = state], result |-> Ok]

\* apply_transaction, after apply_tx(tx)? succeeded: the weight of the
\* transaction is added to next_weight
tx_accepted(M1, state, tx) ==
    [mempool |-> [M1 EXCEPT !.provisional_state = state,
                            !.next_weight = @ + weight(tx)],
     result |-> Ok]

\* a refusal by the state machine that takes the hash out of txx_in_state
\* again (M is the mempool before the insert, M1 after it)
tx_refused_undone(M, M1, err) ==
    [mempool |-> M, result |-> Result(err, None)]

\* apply_transaction, self.provisional_state.apply_tx(tx)? returning the
\* error: the insert into txx_in_state made before it stays
tx_refused(M, M1, err) ==
    [mempool |-> M1, result |-> Result(err, None)]

\* apply_transaction with the check for a duplicate made before the check
\* of the weight
apply_transaction_dup_first(M, tx) ==
    IF hash_nosigs(tx) \in M.txx_in_state
    THEN [mempool |-> M, result |-> Result("DuplicateTx", None)]
    ELSE IF has_room(M)
    THEN LET M1 == [M EXCEPT !.txx_in_state = @ \cup {hash_nosigs(tx)}]
             applied == apply_tx(M1.provisional_state, tx)
         IN IF ~applied.ok
            THEN tx_refused(M, M1, applied.err)
            ELSE tx_accepted(M1, applied.state, tx)
    ELSE [mempool |-> M, result |-> Result("MempoolFull", None)]

\* Tries to add a transaction to the mempool.
apply_transaction(M, tx) ==
    IF has_room(M)
    THEN IF hash_nosigs(tx) \in M.txx_in_state
         THEN [mempool |-> M, result |-> Result("DuplicateTx", None)]
         ELSE LET M1 == [M EXCEPT !.txx_in_state = @ \cup {hash_nosigs(tx)}]
                  applied == apply_tx(M1.provisional_state, tx)
              IN IF ~applied.ok
                 THEN tx_refused(M, M1, applied.err)
                 ELSE tx_accepted(M1, applied.state, tx)
    ELSE [mempool |-> M, result |-> Result("MempoolFull", None)]

\* the replacement of the state that forgets the weight but keeps the
\* transactions seen
rebased_keep_seen(M, state) ==
    [M EXCEPT !.provisional_state = next_unsealed(state),
              !.last_rebase = next_unsealed(state),
              !.next_weight = 0]

\* rebase, once the height is greater and the state is empty: the state is
\* replaced, the transactions seen are forgotten
rebased(M, state) ==
    [M EXCEPT !.provisional_state = next_unsealed(state),
              !.last_rebase = next_unsealed(state),
              !.txx_in_state = {},
              !.next_weight = 0]

\* rebase replacing the state whenever the heights differ
rebase_any_height(M, state) ==
    IF state.header.height # seal(M.provisional_state).header.height
    THEN IF ~is_empty(state)
         THEN [mempool |-> M, result |-> Panic]
         ELSE [mempool |-> rebased(M, state), result |-> Ok]
    ELSE [mempool |-> M, result |-> Ok]

\* Forcibly replaces the internal state of the mempool with the given
\* state; assert!(state.is_empty()) panics on a state with transactions.
rebase(M, state) ==
    LET sealed_provisional_state == seal(M.provisional_state)
    IN IF state.header.height > sealed_provisional_state.header.height
       THEN IF ~is_empty(state)
            THEN [mempool |-> M, result |-> Panic]
            ELSE [mempool |-> rebased(M, state), result |-> Ok]
       ELSE [mempool |-> M, result |-> Ok]

(***************************************************************************)
(* The state machine.  backend and cache are the fields of Inner;          *)
(* debug_build is the build profile (debug assertions and overflow checks  *)
(* compiled in); outcome is the last call made and what it returned.  A    *)
(* panic ends the process: no call follows it.  mempool holds the fields   *)
(* of the Mempool, mp_call the last call made on it and what it returned.  *)
(* borrows holds the cursors onto the tree the caller has not dropped.     *)
(***************************************************************************)
\* Cursor: the borrow &'a BlockTree and the cloned InternalValue
Cursor(internal) == [mutable |-> FALSE, internal |-> internal]

\* CursorMut: the borrow &'a mut BlockTree and the cloned InternalValue
CursorMut(internal) == [mutable |-> TRUE, internal |-> internal]

\* a borrow checker that finds no borrow of the tree alive
borrowed_never(cs) == FALSE

\* &mut self: the call is accepted only where no cursor, each of which holds
\* a borrow of the tree for its lifetime, is alive
borrowed(cs) == cs # {}

Tree == [backend |-> backend, cache |-> cache]

Call(op, arg, result) == [op |-> op, arg |-> arg, result |-> result]

Returned(panic) == IF panic THEN Panic ELSE Ok

Running == outcome.result # Panic

\* BlockTree::new on an empty backend
Init ==
    /\ backend = <<>>
    /\ cache = <<>>
    /\ debug_build \in BOOLEAN
    /\ outcome = Call("new", NoHash, Ok)
    /\ mempool = mempool_new(UnsealedState(0, {}))
    /\ mp_call = Call("new", UnsealedState(0, {}), Ok)
    /\ borrows = {}

ApplyBlock(b, m) ==
    LET r == apply_block(Tree, Block(b), m)
    IN /\ Running
       /\ ~borrowed(borrows)
       /\ backend' = r.tree.backend
       /\ cache' = r.tree.cache
       /\ outcome' = Call("apply_block", b, r.result)
       /\ UNCHANGED <<debug_build, mempool, mp_call, borrows>>

SetGenesis(b, m) ==
    /\ Running
    /\ ~borrowed(borrows)
    /\ \E r \in set_genesis(Tree, SealedState(Header(b)), m, debug_build) :
          /\ backend' = r.tree.backend
          /\ cache' = r.tree.cache
          /\ outcome' = Call("set_genesis", b, Returned(r.panic))
    /\ UNCHANGED <<debug_build, mempool, mp_call, borrows>>

DeleteTips ==
    LET r == delete_tips(Tree, debug_build)
    IN /\ Running
       /\ ~borrowed(borrows)
       /\ backend' = r.tree.backend
       /\ cache' = r.tree.cache
       /\ outcome' = Call("delete_tips", NoHash, Returned(r.panic))
       /\ UNCHANGED <<debug_build, mempool, mp_call, borrows>>

\* get_cursor_mut(h), set_metadata(m) on the cursor, and the cursor dropped
SetMetadata(h, m) ==
    /\ Running
    /\ ~borrowed(borrows)
    /\ IsSome(get_cursor(Tree, h))
    /\ backend' = set_metadata(Tree, get_cursor(Tree, h)[1], m).backend
    /\ outcome' = Call("set_metadata", h, Ok)
    /\ UNCHANGED <<cache, debug_build, mempool, mp_call, borrows>>

Next ==
    \/ \E b \in Hashes, m \in Metadata : ApplyBlock(b, m)
    \/ \E b \in Sealable, m \in Metadata : SetGenesis(b, m)
    \/ DeleteTips
    \/ \E h \in Hashes, m \in Metadata : SetMetadata(h, m)

Spec == Init /\ [][Next]_vars

(***************************************************************************)
(* The scenarios: a caller that builds the linear chain on a fresh tree    *)
(* (simple_test), then either deletes the tips or grows the branch and     *)
(* makes the branch's first block the genesis.                             *)
(***************************************************************************)
\* set_genesis(G0) on the fresh tree
Genesis(m) ==
    /\ backend = <<>>
    /\ SetGenesis(ChainBlock(0), m)

\* apply_block of the block sealed on top of the block applied last
Extend(b, m) ==
    /\ \/ outcome = Call("set_genesis", ChainBlock(0), Ok)
       \/ outcome.op = "apply_block" /\ outcome.result = Ok
    /\ Header(b).previous = outcome.arg
    /\ ApplyBlock(b, m)

\* apply_block of the branch's first block, once the chain has grown past
\* the block the branch leaves it at
Fork(m) ==
    /\ outcome.op = "apply_block" /\ outcome.result = Ok
    /\ outcome.arg \in ChainBlocks
    /\ Header(outcome.arg).height >= 2
    /\ ApplyBlock(ForkBlock(1), m)

\* set_genesis of the branch's first block, once the branch is built
Prune(m) ==
    /\ outcome = Call("apply_block", ForkBlock(2), Ok)
    /\ SetGenesis(ForkBlock(1), m)

\* delete_tips on the linear chain
Truncate ==
    /\ outcome.op = "apply_block" /\ outcome.result = Ok
    /\ outcome.arg \in ChainBlocks
    /\ DeleteTips

ScenarioNext ==
    \/ \E m \in Metadata : Genesis(m)
    \/ \E b \in ChainBlocks \cup {ForkBlock(2)}, m \in Metadata : Extend(b, m)
    \/ \E m \in Metadata : Fork(m)
    \/ \E m \in Metadata : Prune(m)
    \/ Truncate

ScenarioSpec == Init /\ [][ScenarioNext]_vars

(***************************************************************************)
(* BranchSpec: any calls, in any order, with the blocks of the scenarios:  *)
(* trees whose branches leave the chain above the genesis and differ in    *)
(* length.                                                                 *)
(***************************************************************************)
BranchBlocks == ChainBlocks \cup ForkBlocks

\* the genesis asserted is the first block of the chain or of the branch
BranchNext ==
    \/ \E b \in BranchBlocks : ApplyBlock(b, 0)
    \/ \E b \in {ChainBlock(0), ForkBlock(1)} : SetGenesis(b, 0)
    \/ DeleteTips

BranchSpec == Init /\ [][BranchNext]_vars

(***************************************************************************)
(* Restarts.  The process opens the backend it had, after a call returned  *)
(* or panicked, or after apply_block was interrupted between two of the    *)
(* writes of insert_block; the cache starts empty.                         *)
(***************************************************************************)
\* the writes of insert_block done before the interruption
CommitSteps == 0 .. 6

\* BlockTree::new on the backend as the last call left it
Reopen ==
    LET T == new(backend)
    IN /\ ~borrowed(borrows)
       /\ backend' = T.backend
       /\ cache' = T.cache
       /\ outcome' = Call("new", NoHash, Ok)
       /\ UNCHANGED <<debug_build, mempool, mp_call, borrows>>

\* apply_block(b, m) interrupted after i writes of insert_block, then
\* BlockTree::new on the backend
CrashedApply(b, m, i) ==
    LET previous == find_parent(Tree, Block(b))
        answer == stf_apply_block(to_state(previous[1], cache), Block(b))
        S == insert_steps(Tree, answer.state[1], m)
        T == new(IF i = 0 THEN backend ELSE S[i].backend)
    IN /\ Running
       /\ ~borrowed(borrows)
       /\ IsSome(previous)
       /\ answer.ok
       /\ answer.state[1].header = Block(b).header
       /\ backend' = T.backend
       /\ cache' = T.cache
       /\ outcome' = Call("new", b, Result("Interrupted", Some(i)))
       /\ UNCHANGED <<debug_build, mempool, mp_call, borrows>>

\* the process has not restarted yet
FirstRun == outcome.op # "new" \/ backend = <<>>

\* the calls on the blocks of the chain and the branch up to the first
\* restart; the genesis asserted is a block of the chain or the first block
\* of the branch
RecoveryNext ==
    \/ \E b \in BranchBlocks : FirstRun /\ ApplyBlock(b, 0)
    \/ \E b \in {ChainBlock(0), ChainBlock(1), ForkBlock(1)} :
           FirstRun /\ SetGenesis(b, 0)
    \/ FirstRun /\ DeleteTips
    \/ FirstRun /\ Reopen
    \/ \E b \in BranchBlocks, i \in CommitSteps :
           FirstRun /\ CrashedApply(b, 0, i)

RecoverySpec == Init /\ [][RecoveryNext]_vars

(***************************************************************************)
(* The cursors.  CursorSpec: a caller that builds the trees of the         *)
(* scenarios and takes, uses and drops cursors onto them in any order the  *)
(* borrows allow.                                                          *)
(***************************************************************************)
(***************************************************************************)
\* a call on a cursor that leaves the tree and the mempool alone
CursorIdle == UNCHANGED <<backend, cache, debug_build, outcome, mempool, mp_call>>

\* get_cursor(&self): a shared borrow, which a live CursorMut excludes
GetCursor(h) ==
    /\ Running
    /\ \A c \in borrows : ~c.mutable
    /\ Cardinality(borrows) < MaxCursors
    /\ IsSome(get_cursor(Tree, h))
    /\ borrows' = borrows \cup {Cursor(get_cursor(Tree, h)[1])}
    /\ CursorIdle

\* get_cursor_mut(&mut self)
GetCursorMut(h) ==
    /\ Running
    /\ ~borrowed(borrows)
    /\ IsSome(get_cursor(Tree, h))
    /\ borrows' = {CursorMut(get_cursor(Tree, h)[1])}
    /\ CursorIdle

\* the cursor goes out of scope
DropCursor(c) ==
    /\ c \in borrows
    /\ borrows' = borrows \ {c}
    /\ CursorIdle

\* CursorMut::set_metadata on a cursor the caller holds
CursorSetMetadata(c, m) ==
    /\ c \in borrows
    /\ c.mutable
    /\ backend' = set_metadata(Tree, c.internal, m).backend
    /\ borrows' = (borrows \ {c}) \cup {CursorMut([c.internal EXCEPT !.metadata = m])}
    /\ outcome' = Call("set_metadata", hash(c.internal.header), Ok)
    /\ UNCHANGED <<cache, debug_build, mempool, mp_call>>

\* CursorMut::downgrade
Downgrade(c) ==
    /\ c \in borrows
    /\ c.mutable
    /\ borrows' = (borrows \ {c}) \cup {Cursor(c.internal)}
    /\ CursorIdle

\* Cursor::parent: a cursor more, onto the parent
Parent(c) ==
    /\ c \in borrows
    /\ ~c.mutable
    /\ Cardinality(borrows) < MaxCursors
    /\ IsSome(get_cursor(Tree, c.internal.header.previous))
    /\ borrows' = borrows \cup {Cursor(get_cursor(Tree, c.internal.header.previous)[1])}
    /\ CursorIdle

\* CursorMut::parent, which consumes the cursor
ParentMut(c) ==
    /\ c \in borrows
    /\ c.mutable
    /\ borrows' =
          IF IsSome(get_cursor(Tree, c.internal.header.previous))
          THEN (borrows \ {c}) \cup
                  {CursorMut(get_cursor(Tree, c.internal.header.previous)[1])}
          ELSE borrows \ {c}
    /\ CursorIdle

\* the trees of the scenarios, every block with the same metadata
CursorNext ==
    \/ Genesis(0)
    \/ \E b \in ChainBlocks \cup {ForkBlock(2)} : Extend(b, 0)
    \/ Fork(0)
    \/ Prune(0)
    \/ Truncate
    \/ \E h \in Headers : GetCursor(h)
    \/ \E h \in Headers : GetCursorMut(h)
    \/ \E c \in borrows : DropCursor(c)
    \/ \E c \in borrows, m \in Metadata : CursorSetMetadata(c, m)
    \/ \E c \in borrows : Downgrade(c)
    \/ \E c \in borrows : Parent(c)
    \/ \E c \in borrows : ParentMut(c)

CursorSpec == Init /\ [][CursorNext]_vars

(***************************************************************************)
(* The mempool's callers.  MempoolSpec: any transaction, any rebase and    *)
(* to_state in any order, on a mempool made from any state.                *)
(***************************************************************************)
TreeIdle == UNCHANGED <<backend, cache, debug_build, outcome, borrows>>

MpRunning == mp_call.result # Panic

Sigs == 0 .. MaxSigs

\* the states Mempool::new is given
InitialStates ==
    {UnsealedState(h, txs) :
        h \in 0 .. MaxStateHeight,
        txs \in {{}, {hash_nosigs(Transaction(1, 0))}}}

\* the states rebase is given
ConfirmedStates ==
    {seal(UnsealedState(h, txs)) :
        h \in 0 .. MaxStateHeight,
        txs \in {{}, {hash_nosigs(Transaction(2, 0))}}}

MempoolInit ==
    /\ backend = <<>>
    /\ cache = <<>>
    /\ debug_build \in BOOLEAN
    /\ outcome = Call("new", NoHash, Ok)
    /\ \E state \in InitialStates :
          /\ mempool = mempool_new(state)
          /\ mp_call = Call("new", state, Ok)
    /\ borrows = {}

ApplyTransaction(tx) ==
    LET r == apply_transaction(mempool, tx)
    IN /\ MpRunning
       /\ mempool' = r.mempool
       /\ mp_call' = Call("apply_transaction", tx, r.result)
       /\ TreeIdle

Rebase(state) ==
    LET r == rebase(mempool, state)
    IN /\ MpRunning
       /\ mempool' = r.mempool
       /\ mp_call' = Call("rebase", state, r.result)
       /\ TreeIdle

\* to_state: the result is the copy handed out
ToState ==
    /\ MpRunning
    /\ mp_call' = Call("to_state", NoHash, mempool_to_state(mempool))
    /\ UNCHANGED mempool
    /\ TreeIdle

MempoolNext ==
    \/ \E t \in TxBodies, g \in Sigs : ApplyTransaction(Transaction(t, g))
    \/ \E state \in ConfirmedStates : Rebase(state)
    \/ ToState

MempoolSpec == MempoolInit /\ [][MempoolNext]_vars

(***************************************************************************)
(* The weight-cap scenario: on an empty mempool the transactions #1, #2,   *)
(* ... #NumSubmitted, which all weigh ScenarioWeight, are submitted in     *)
(* this order, and then #1 is submitted again.                             *)
(***************************************************************************)
WeightCapInit ==
    /\ backend = <<>>
    /\ cache = <<>>
    /\ debug_build \in BOOLEAN
    /\ outcome = Call("new", NoHash, Ok)
    /\ \E h \in 0 .. MaxStateHeight :
          /\ mempool = mempool_new(UnsealedState(h, {}))
          /\ mp_call = Call("new", UnsealedState(h, {}), Ok)
    /\ borrows = {}

\* the call before submitted transaction #k
Submitted(k) ==
    /\ mp_call.op = "apply_transaction"
    /\ mp_call.arg.body = ScenarioTx(k)

SubmitFirst(g) ==
    /\ mp_call.op = "new"
    /\ ApplyTransaction(Transaction(ScenarioTx(1), g))

\* #k is submitted after #(k-1); #2 after the first submission of #1, which
\* was accepted
SubmitNext(k, g) ==
    /\ Submitted(k - 1)
    /\ k = 2 => mp_call.result = Ok
    /\ ApplyTransaction(Transaction(ScenarioTx(k), g))

Resubmit(g) ==
    /\ Submitted(NumSubmitted)
    /\ ApplyTransaction(Transaction(ScenarioTx(1), g))

WeightCapNext ==
    \/ \E g \in Sigs : SubmitFirst(g)
    \/ \E k \in 2 .. NumSubmitted, g \in Sigs : SubmitNext(k, g)
    \/ \E g \in Sigs : Resubmit(g)

WeightCapSpec == WeightCapInit /\ [][WeightCapNext]_vars

(***************************************************************************)
(* The three logical tables, read off the backend.                         *)
(***************************************************************************)
AllHashes == HashMin .. HashMax

\* the keys of the main table: those below the two sentinel heights
MainKeys == {k \in DOMAIN backend : k[1] < U64_MAX - 1}

MainRecord(k) == deserialize_value(backend[k])

\* the hashes that have a main record
MainHashes == {k[2] : k \in MainKeys}

TipHashes == {h \in AllHashes : tip_key(h) \in DOMAIN backend}

IndexHashes == {h \in AllHashes : index_key(h) \in DOMAIN backend}

\* the ancestors of a hash along the previous-pointers of the headers
RECURSIVE Ancestors(_)
Ancestors(h) ==
    IF h \notin Headers \/ Header(h).previous \notin Headers THEN {}
    ELSE {Header(h).previous} \cup Ancestors(Header(h).previous)

\* the main records that have no parent record in the main table
Roots == {k \in MainKeys : MainRecord(k).header.previous \notin MainHashes}

\* the last call was op and it returned (it did not panic)
Returns(op) == outcome.op = op /\ outcome.result # Panic

(***************************************************************************)
(* Invariants of the tables.                                               *)
(***************************************************************************)
\* a hash has a tips entry iff it has a main record whose children set is
\* empty
TipsAreChildless ==
    \A h \in AllHashes :
        h \in TipHashes <=>
            \E k \in MainKeys : k[2] = h /\ MainRecord(k).next = {}

\* C1: in every state a sequence of calls reaches, a hash is in the tips
\* table iff it has a main record whose children set is empty (stated for
\* the states in which the last call returned).
TipCorrectness == Running => TipsAreChildless

\* C2: the index maps hash to h iff the main table holds a record at
\* (h, hash), and that record's header.height is h.
IndexConsistency ==
    /\ \A h \in IndexHashes :
          main_key(h, backend[index_key(h)].height) \in MainKeys
    /\ \A k \in MainKeys :
          /\ k[2] \in IndexHashes
          /\ backend[index_key(k[2])].height = k[1]
          /\ MainRecord(k).header.height = k[1]

\* if the record of r's header.previous exists one height below r, its
\* children set contains r's hash
ParentsKnowChildren ==
    \A k \in MainKeys :
        LET p == main_key(MainRecord(k).header.previous, k[1] - 1)
        IN p \in MainKeys => k[2] \in MainRecord(p).next

\* C3: in every reachable state a record's parent record, if it exists one
\* height below, lists the record among its children (stated for the states
\* in which the last call returned).
ParentConsistency == Running => ParentsKnowChildren

(***************************************************************************)
(* set_genesis.                                                            *)
(***************************************************************************)
\* what is left in main is g or a descendant of g, and no other hash is
\* left in the index, the tips or the cache
OnlyGenesisTree(g) ==
    \A h \in MainHashes \cup IndexHashes \cup TipHashes \cup DOMAIN cache :
        h = g \/ g \in Ancestors(h)

\* C4: after set_genesis(g) returns, every record left is g or a descendant
\* of g, whatever the tree was before and whichever tip came first.
GenesisPrunesAll ==
    Returns("set_genesis") => OnlyGenesisTree(outcome.arg)

\* C5: after any call to set_genesis exactly one main record has no parent
\* record in the main table.
GenesisSingleRoot ==
    Returns("set_genesis") => Cardinality(Roots) = 1

(***************************************************************************)
(* apply_block, call by call.  A step whose outcome' names apply_block and *)
(* block b is a call apply_block(b, m) made in the unprimed state.         *)
(***************************************************************************)
Applies(b) == outcome'.op = "apply_block" /\ outcome'.arg = b

\* the key at which the parent of block b is looked for
ParentKey(b) ==
    main_key(Header(b).previous,
             IF Header(b).height = 0 THEN 0 ELSE Header(b).height - 1)

\* the record of block b is in the main table
Present(b) == main_key(b, Header(b).height) \in MainKeys

\* what the validator answers for block b on the state of its parent record
Answer(b) ==
    stf_apply_block(to_state(MainRecord(ParentKey(b)), cache), Block(b))

TablesUnchanged == UNCHANGED <<backend, cache>>

\* C6: apply_block of a block whose record is already present returns
\* success and leaves the backend and the cache as they were.
ReapplyIsNoOp ==
    [][\A b \in Hashes :
          Applies(b) /\ Present(b)
              => outcome'.result = Ok /\ TablesUnchanged]_vars

\* C7: apply_block fails with ParentNotFound(header.previous) exactly when
\* no main record exists at (header.height - 1, header.previous), the
\* height saturating at 0, and then backend and cache are unchanged.
ParentNotFoundExactly ==
    [][\A b \in Hashes :
          Applies(b) =>
              /\ outcome'.result = Result("ParentNotFound", Some(Header(b).previous))
                    <=> ParentKey(b) \notin MainKeys
              /\ ParentKey(b) \notin MainKeys => TablesUnchanged]_vars

\* C7 witness: a block was refused with ParentNotFound although a record
\* with the hash of its predecessor exists, at another height than the one
\* looked up.
ParentNotFoundSeen ==
    /\ outcome.op = "apply_block"
    /\ outcome.result = Result("ParentNotFound", Some(Header(outcome.arg).previous))
    /\ Header(outcome.arg).previous \in MainHashes
    /\ ParentKey(outcome.arg) \notin MainKeys

\* C8: when the parent record exists and the validator rejects the block,
\* apply_block fails with CannotValidate carrying the validator's error and
\* backend and cache are unchanged.
RejectedIsCannotValidate ==
    [][\A b \in Hashes :
          (Applies(b) /\ ParentKey(b) \in MainKeys /\ ~Answer(b).ok)
              => /\ outcome'.result = Result("CannotValidate", Some(Answer(b).err))
                 /\ TablesUnchanged]_vars

\* C8 witness: a block was refused with CannotValidate by a tree that holds
\* the record of its parent and not the block's.
CannotValidateSeen ==
    /\ outcome.op = "apply_block"
    /\ outcome.result.kind = "CannotValidate"
    /\ ParentKey(outcome.arg) \in MainKeys
    /\ ~Answer(outcome.arg).ok
    /\ ~Present(outcome.arg)

\* C9: when the validator answers a state whose header differs from the
\* block's, apply_block returns the error value HeaderMismatch and leaves
\* the tree unchanged.
MismatchIsErrorValue ==
    [][\A b \in Hashes :
          (/\ Applies(b)
           /\ ParentKey(b) \in MainKeys
           /\ Answer(b).ok
           /\ Answer(b).state[1].header # Header(b))
              => /\ outcome'.result = Result("HeaderMismatch", None)
                 /\ TablesUnchanged]_vars

\* what a successful apply_block(b, m) of a new block leaves behind
AppliedBlockFrame(b, m) ==
    LET kB == main_key(b, Header(b).height)
        kP == ParentKey(b)
        P == Header(b).previous
        touched == {kB, kP, index_key(b), tip_key(b), tip_key(P)}
    IN /\ kB \in DOMAIN backend'
       /\ backend'[kB] = serialize_value(
              [header |-> Header(b),
               partial_state |-> partial_encoding(SealedState(Header(b))),
               action |-> None, next |-> {}, metadata |-> m])
       /\ kP \in DOMAIN backend'
       /\ backend'[kP] = [backend[kP] EXCEPT !.next = @ \cup {b}]
       /\ b \in backend'[kP].next
       /\ index_key(b) \in DOMAIN backend'
       /\ backend'[index_key(b)] = serialize_height(Header(b).height)
       /\ tip_key(b) \in DOMAIN backend'
       /\ tip_key(P) \notin DOMAIN backend'
       /\ DOMAIN backend' \ touched = DOMAIN backend \ touched
       /\ \A k \in DOMAIN backend \ touched : backend'[k] = backend[k]
       /\ DOMAIN cache' = DOMAIN cache \cup {b}
       /\ cache'[b] = SealedState(Header(b))
       /\ \A h \in DOMAIN cache \ {b} : cache'[h] = cache[h]

\* C10: a successful apply_block of a new block B with parent P leaves a
\* main record for B with no children and the given metadata, B among P's
\* children, the index entry B -> height, B in the tips and P not, B's
\* sealed state in the cache, and every other entry as it was.
AppliedBlockEffect ==
    [][\A b \in Hashes, m \in Metadata :
          (Applies(b) /\ outcome'.result = Ok /\ ~Present(b) /\ ApplyBlock(b, m))
              => AppliedBlockFrame(b, m)]_vars

\* C10 witness: block B was applied on a parent that already had a child:
\* B is a childless tip with metadata 1, its parent has a second child
\* and is no tip.
ForkApplied ==
    /\ outcome.op = "apply_block"
    /\ outcome.result = Ok
    /\ Present(outcome.arg)
    /\ outcome.arg \in TipHashes
    /\ MainRecord(main_key(outcome.arg, Header(outcome.arg).height)).next = {}
    /\ MainRecord(main_key(outcome.arg, Header(outcome.arg).height)).metadata = 1
    /\ ParentKey(outcome.arg) \in MainKeys
    /\ Cardinality(MainRecord(ParentKey(outcome.arg)).next) = 2
    /\ Header(outcome.arg).previous \notin TipHashes

(***************************************************************************)
(* delete_tips, call by call.  A step whose outcome' names delete_tips is  *)
(* a call of delete_tips made in the unprimed state.                       *)
(***************************************************************************)
DeletesTips == outcome'.op = "delete_tips"

\* the keys delete_tips may write: the entries of the tips and the main and
\* tips entries of their parents
TipAndParentKeys ==
    UNION {{main_key(t, Header(t).height), index_key(t), tip_key(t),
            ParentKey(t), tip_key(Header(t).previous)} : t \in TipHashes}

\* what delete_tips leaves of the tip t and of its parent
TipDeleted(t) ==
    /\ main_key(t, Header(t).height) \notin DOMAIN backend'
    /\ index_key(t) \notin DOMAIN backend'
    /\ tip_key(t) \notin DOMAIN backend'
    /\ t \notin DOMAIN cache'
    /\ ParentKey(t) \in MainKeys =>
          /\ ParentKey(t) \in DOMAIN backend'
          /\ t \notin backend'[ParentKey(t)].next
          /\ tip_key(Header(t).previous) \in DOMAIN backend'

\* C11: on a tree satisfying invariants 1-3 delete_tips completes; every
\* hash that was a tip loses its main, index, tips and cache entries and
\* leaves its parent's children set, the parent becomes a tip, and no entry
\* other than those of the tips and their parents changes.
DeleteTipsContract ==
    [][(DeletesTips /\ TipsAreChildless /\ IndexConsistency /\ ParentsKnowChildren)
          => /\ outcome'.result = Ok
             /\ \A t \in TipHashes : TipDeleted(t)
             /\ \A k \in (DOMAIN backend \cup DOMAIN backend') \ TipAndParentKeys :
                   /\ k \in DOMAIN backend /\ k \in DOMAIN backend'
                   /\ backend'[k] = backend[k]
             /\ \A h \in DOMAIN cache \ TipHashes :
                   h \in DOMAIN cache' /\ cache'[h] = cache[h]]_vars

\* apply_block(b, m) of a block with no record succeeds on the current tree
NewBlockApplies(b, m) ==
    /\ Running
    /\ ~Present(b)
    /\ apply_block(Tree, Block(b), m).result = Ok

\* the outcome of delete_tips called right after apply_block(b, m)
AppliedThenDeleted(b, m) ==
    delete_tips(apply_block(Tree, Block(b), m).tree, debug_build)

\* delete_tips after apply_block(b, m) returns and leaves the backend (main,
\* index and tips tables) as it was before the block was applied
Restored(b, m) ==
    /\ ~AppliedThenDeleted(b, m).panic
    /\ AppliedThenDeleted(b, m).tree.backend = backend

\* C12 as stated: from any tree, applying a new block and then calling
\* delete_tips gives back the main, index and tips tables of the tree.
DeleteTipsUndoesApply ==
    \A b \in Hashes, m \in Metadata : NewBlockApplies(b, m) => Restored(b, m)

\* C12 amended: the same, from a tree whose only tip is the parent of the
\* block applied.
DeleteTipsUndoesExtension ==
    \A b \in Hashes, m \in Metadata :
        (NewBlockApplies(b, m) /\ TipHashes = {Header(b).previous})
            => Restored(b, m)

\* C12 witness: a chain of two blocks whose head is the only tip, and a new
\* block that applies on the head and is undone by delete_tips.
ExtensionUndone ==
    \E b \in Hashes, m \in Metadata :
        /\ NewBlockApplies(b, m)
        /\ TipHashes = {Header(b).previous}
        /\ Cardinality(MainHashes) = 2
        /\ AppliedThenDeleted(b, m).tree.backend = backend
        /\ AppliedThenDeleted(b, m).tree.backend
              # apply_block(Tree, Block(b), m).tree.backend

\* C13: a set_genesis(g) that follows a set_genesis(g) returns and leaves
\* the backend and the cache as the first call left them.
GenesisIdempotent ==
    [][\A g \in Hashes :
          (/\ outcome = Call("set_genesis", g, Ok)
           /\ outcome'.op = "set_genesis"
           /\ outcome'.arg = g)
              => outcome'.result = Ok /\ TablesUnchanged]_vars

(***************************************************************************)
(* apply_block as a function of the tables.  Two trees with the same       *)
(* backend differ in the entries their caches hold: a tree opened on an    *)
(* existing backend starts with an empty cache and caches only what it     *)
(* inserts.                                                                *)
(***************************************************************************)
\* the current tree with only the cache entries of the hashes in D
WithCache(D) == [backend |-> backend, cache |-> [h \in D |-> cache[h]]]

\* apply_block of any block gives, on the current tree and on a tree with
\* the same tables and any part of its cache, the same result value and the
\* same tables
SameWarmAndCold ==
    \A b \in Hashes, m \in Metadata :
        LET warm == apply_block(Tree, Block(b), m)
        IN \A D \in SUBSET DOMAIN cache :
               LET cold == apply_block(WithCache(D), Block(b), m)
               IN /\ cold.result = warm.result
                  /\ cold.tree.backend = warm.tree.backend

CacheInMain == DOMAIN cache \subseteq MainHashes

\* C15: before and after every step every cached hash has a main record,
\* and a hash whose main record the step removes is not in the cache after
\* it.
CacheCoherence ==
    [][/\ CacheInMain
       /\ CacheInMain'
       /\ \A h \in MainHashes :
             main_key(h, Header(h).height) \notin DOMAIN backend'
                 => h \notin DOMAIN cache']_vars

\* C15 witness: delete_tips returned on a tree that held a cached branch: a
\* record is gone from main and cache, the records left are still cached.
CacheFollowsRemoval ==
    /\ Returns("delete_tips")
    /\ MainHashes # {}
    /\ DOMAIN cache = MainHashes
    /\ \E h \in Hashes : Header(h).previous \in MainHashes /\ h \notin DOMAIN cache

(***************************************************************************)
(* The scenarios, checked under ScenarioSpec.  There the last call names   *)
(* the stage reached: a chain block after Genesis and Extend, a block of   *)
(* the branch after Fork and the Extend that follows it.                   *)
(***************************************************************************)
\* the hashes of a vector of cursors, which names no hash twice
HashesOf(cursors) == {hash(cursors[i].header) : i \in 1 .. Len(cursors)}

Exactly(cursors, S) ==
    /\ Len(cursors) = Cardinality(S)
    /\ HashesOf(cursors) = S

\* get_at_height(height) returns, and returns exactly the blocks in S
AtHeight(T, height, S) ==
    /\ ~get_at_height(T, height).panic
    /\ Exactly(get_at_height(T, height).cursors, S)

\* the last call built the linear chain up to the chain block outcome.arg
OnChain ==
    /\ outcome.op \in {"set_genesis", "apply_block"}
    /\ outcome.arg \in ChainBlocks

\* C16: on a fresh tree, after set_genesis(G0) and n apply_block calls each
\* extending the block before, the last call succeeded, get_tips returns
\* exactly the last block and get_at_height(k) exactly the k-th block, for
\* every k from 0 to n.
LinearChain ==
    OnChain =>
        /\ outcome.result = Ok
        /\ Exactly(get_tips(Tree), {outcome.arg})
        /\ \A k \in 0 .. Header(outcome.arg).height :
              AtHeight(Tree, k, {ChainBlock(k)})

\* C16 witness: the whole chain is built and its head is the one tip.
ChainBuilt ==
    /\ outcome = Call("apply_block", ChainBlock(ChainLen), Ok)
    /\ TipHashes = {ChainBlock(ChainLen)}
    /\ AtHeight(Tree, 1, {ChainBlock(1)})

\* the last call built the branch up to its second block
OnFork == outcome.op = "apply_block" /\ outcome.arg = ForkBlock(2)

\* the last block of the linear chain: the chain block of greatest height
\* that has a main record
ChainHead ==
    CHOOSE b \in ChainBlocks :
        /\ Present(b)
        /\ \A c \in ChainBlocks : Present(c) => c <= b

\* C17: after the linear chain B0..Bn, the branch block B5' applied on the
\* chain block the branch leaves at and B6' applied on B5', the tips are
\* exactly {Bn, B6'}, get_at_height of the height of B5' returns exactly
\* the chain block of that height and B5', and the children of the block
\* the branch leaves at are exactly those two.
ForkScenario ==
    OnFork =>
        /\ outcome.result = Ok
        /\ Exactly(get_tips(Tree), {ChainHead, ForkBlock(2)})
        /\ AtHeight(Tree, 2, {ChainBlock(2), ForkBlock(1)})
        /\ IsSome(get_cursor(Tree, ChainBlock(1)))
        /\ get_cursor(Tree, ChainBlock(1))[1].next = {ChainBlock(2), ForkBlock(1)}

\* C17 witness: the branch is built next to the whole chain.
ForkBuilt ==
    /\ outcome = Call("apply_block", ForkBlock(2), Ok)
    /\ ChainHead = ChainBlock(ChainLen)
    /\ TipHashes = {ChainBlock(ChainLen), ForkBlock(2)}

\* the last call made the branch's first block the genesis
OnPruned == outcome.op = "set_genesis" /\ outcome.arg = ForkBlock(1)

\* C18: in the fork scenario set_genesis(B5') returns, removes every chain
\* block (B0..B4 and B5..Bn) from main, index, tips and cache, leaves
\* exactly B5' and B6' in main and leaves the tips equal to {B6'}.
ForkPruning ==
    OnPruned =>
        /\ outcome.result = Ok
        /\ MainHashes = ForkBlocks
        /\ Cardinality(MainKeys) = 2
        /\ IndexHashes = ForkBlocks
        /\ TipHashes = {ForkBlock(2)}
        /\ Exactly(get_tips(Tree), {ForkBlock(2)})
        /\ DOMAIN cache \cap ChainBlocks = {}

\* C18 witness: the pruning ran with the debug assertions of remove_orphan
\* compiled in and left the two blocks of the branch.
ForkPruned ==
    /\ outcome = Call("set_genesis", ForkBlock(1), Ok)
    /\ debug_build
    /\ MainHashes = ForkBlocks
    /\ AtHeight(Tree, 0, {})

\* the tree after the step
TreeAfter == [backend |-> backend', cache |-> cache']

\* C19: delete_tips on the linear chain B0..Bn returns, leaves the tips
\* equal to {B(n-1)} and leaves Bn in none of main, index and tips.
ChainTipDeletion ==
    [][(DeletesTips /\ outcome.op = "apply_block" /\ outcome.arg \in ChainBlocks)
          => /\ outcome'.result = Ok
             /\ Exactly(get_tips(TreeAfter), {Header(outcome.arg).previous})
             /\ main_key(outcome.arg, Header(outcome.arg).height)
                   \notin DOMAIN backend'
             /\ index_key(outcome.arg) \notin DOMAIN backend'
             /\ tip_key(outcome.arg) \notin DOMAIN backend']_vars

\* C19 witness: delete_tips returned on the whole chain: the block before
\* the head is the one tip and the head has no record.
ChainTipDeleted ==
    /\ Returns("delete_tips")
    /\ TipHashes = {ChainBlock(ChainLen - 1)}
    /\ Present(ChainBlock(ChainLen - 1))
    /\ ~Present(ChainBlock(ChainLen))

(***************************************************************************)
(* The key layout and the range scan of get_at_height.                     *)
(***************************************************************************)
\* the hashes of the main records whose header.height is h
MainAtHeight(h) ==
    {k[2] : k \in {kk \in MainKeys : MainRecord(kk).header.height = h}}

\* C20 as stated: get_at_height(h) returns exactly the main records whose
\* header.height is h, for every h: the scan never reads a tips or index
\* entry nor a record of another height.
HeightScanReadsMainOnly ==
    Running => \A h \in 0 .. U64_MAX : AtHeight(Tree, h, MainAtHeight(h))

\* C20 amended: the same for every h below the two sentinel heights
\* u64::MAX - 1 and u64::MAX.
HeightScanBelowSentinels ==
    Running => \A h \in 0 .. U64_MAX - 2 : AtHeight(Tree, h, MainAtHeight(h))

\* C20 witness: two records share height 1 and get_at_height(1) returns
\* both, while the scan at the sentinel height of the tips table returns
\* the tips.
SiblingsAtHeight ==
    /\ Running
    /\ Cardinality(MainAtHeight(1)) = 2
    /\ AtHeight(Tree, 1, MainAtHeight(1))
    /\ MainAtHeight(0) # {}
    /\ get_at_height(Tree, U64_MAX - 1).cursors # <<>>

(***************************************************************************)
(* The mempool, call by call.  A step whose mp_call' names                 *)
(* apply_transaction is a call apply_transaction(mp_call'.arg) made in the *)
(* unprimed state.                                                         *)
(***************************************************************************)
AppliesTx == mp_call'.op = "apply_transaction"

MempoolFull == Result("MempoolFull", None)

DuplicateTx == Result("DuplicateTx", None)

\* C21: apply_transaction rejects with "mempool full" exactly when
\* next_weight >= WEIGHT_LIMIT at the time of the call, and then leaves the
\* fields of the mempool unchanged.
MempoolFullExactly ==
    [][AppliesTx =>
          /\ mp_call'.result = MempoolFull <=> mempool.next_weight >= WEIGHT_LIMIT
          /\ mp_call'.result = MempoolFull => UNCHANGED mempool]_vars

\* C21 witness: a transaction was refused by a mempool whose weight is
\* exactly the limit and that holds two transactions.
FullAtLimit ==
    /\ mp_call.op = "apply_transaction"
    /\ mp_call.result = MempoolFull
    /\ mempool.next_weight = WEIGHT_LIMIT
    /\ Cardinality(mempool.txx_in_state) = 2

(***************************************************************************)
(* The weight-cap scenario, read off the calls of WeightCapSpec.           *)
(***************************************************************************)
\* the step is the submission of #k in the run of NumSubmitted submissions
Submits(k) ==
    /\ AppliesTx
    /\ mp_call'.arg.body = ScenarioTx(k)
    /\ ~Submitted(NumSubmitted)

\* the step is the submission of #1 again, after the NumSubmitted submissions
Resubmits ==
    /\ AppliesTx
    /\ mp_call'.arg.body = ScenarioTx(1)
    /\ Submitted(NumSubmitted)

\* C22 as stated: of the NumSubmitted distinct transactions of weight
\* 1_000_000_001 submitted to the empty mempool, every one but the last is
\* accepted and the last is rejected with 'mempool full'.
AllButLastAccepted ==
    [][\A k \in 1 .. NumSubmitted :
          Submits(k) =>
             IF k < NumSubmitted
             THEN mp_call'.result = Ok
             ELSE mp_call'.result = MempoolFull]_vars

\* C22: of the NumSubmitted distinct transactions of weight 1_000_000_001
\* submitted to the empty mempool, the first is accepted, which takes
\* next_weight to 1_000_000_001, and each of the following ones is rejected
\* with 'mempool full' and leaves the mempool unchanged.
OnlyFirstAccepted ==
    [][\A k \in 1 .. NumSubmitted :
          Submits(k) =>
             IF k = 1
             THEN /\ mp_call'.result = Ok
                  /\ mempool'.next_weight = ScenarioWeight
                  /\ mempool'.txx_in_state = {hash_nosigs(mp_call'.arg)}
             ELSE /\ mp_call'.result = MempoolFull
                  /\ UNCHANGED mempool]_vars

\* C22 witness: the last of the submissions has been rejected with 'mempool
\* full' by a mempool that holds the first transaction only.
LastSubmissionRejected ==
    /\ Submitted(NumSubmitted)
    /\ mp_call.result = MempoolFull
    /\ mempool.next_weight = ScenarioWeight
    /\ mempool.txx_in_state = {hash_nosigs(Transaction(ScenarioTx(1), 0))}

\* C24 as stated: after the submissions, with the mempool at its cap,
\* submitting #1 again fails with DuplicateTx.
ResubmitIsDuplicate ==
    [][Resubmits => mp_call'.result = DuplicateTx]_vars

\* C24: after the submissions, with the mempool at its cap, submitting #1
\* again fails with 'mempool full', the weight being checked before the
\* duplicate, and leaves the mempool unchanged.
ResubmitIsMempoolFull ==
    [][Resubmits =>
          /\ hash_nosigs(mp_call'.arg) \in mempool.txx_in_state
          /\ mempool.next_weight >= WEIGHT_LIMIT
          /\ mp_call'.result = MempoolFull
          /\ UNCHANGED mempool]_vars

\* C24 witness: #1, which the mempool holds, has been submitted after the
\* last submission and rejected with 'mempool full'.
ResubmittedAtCap ==
    /\ Submitted(1)
    /\ mp_call.result = MempoolFull
    /\ hash_nosigs(mp_call.arg) \in mempool.txx_in_state

(***************************************************************************)
(* Duplicates and refused transactions, read off the calls of MempoolSpec. *)
(***************************************************************************)
StateError == Result("StateError", None)

\* the mempool has seen a transaction of this content, whatever its
\* signatures: the hash without signatures is in txx_in_state
SeenBody(b) == \E h \in mempool.txx_in_state : h[2].body = b

\* C23: when the mempool is not full, apply_transaction of a transaction
\* whose hash without signatures is already in txx_in_state fails with
\* DuplicateTx and leaves provisional_state, txx_in_state and next_weight
\* (the whole mempool) unchanged.
DuplicateRejected ==
    [][AppliesTx /\ mempool.next_weight < WEIGHT_LIMIT
                 /\ SeenBody(mp_call'.arg.body) =>
          /\ mp_call'.result = DuplicateTx
          /\ UNCHANGED mempool]_vars

\* C23 witness: a signed transaction has been refused as a duplicate by a
\* mempool that is not full and has accepted its content.
DuplicateSeen ==
    /\ mp_call.op = "apply_transaction"
    /\ mp_call.result = DuplicateTx
    /\ mempool.next_weight > 0
    /\ mempool.next_weight < WEIGHT_LIMIT
    /\ mp_call.arg.sigs # 0
    /\ hash_nosigs(mp_call.arg) \in mempool.provisional_state.transactions

\* the transactions the mempool accepted since the last rebase
AcceptedHashes ==
    mempool.provisional_state.transactions \ mempool.last_rebase.transactions

\* the hash is one of a transaction the state machine refused since the
\* last rebase: seen, but not accepted
Refused(h) == h \in mempool.txx_in_state /\ h \notin AcceptedHashes

\* the step is a call the state machine refuses: the hash stays in
\* txx_in_state, next_weight and provisional_state are as before
RefusalKeepsHash ==
    AppliesTx /\ mp_call'.result = StateError =>
       /\ hash_nosigs(mp_call'.arg) \in mempool'.txx_in_state
       /\ mempool'.next_weight = mempool.next_weight
       /\ mempool'.provisional_state = mempool.provisional_state

\* C25 as stated: a call the state machine refuses leaves the hash in
\* txx_in_state and next_weight unchanged, and every later submission of
\* the transaction before the next rebase is rejected with DuplicateTx.
RefusedThenDuplicate ==
    [][/\ RefusalKeepsHash
       /\ AppliesTx /\ Refused(hash_nosigs(mp_call'.arg)) =>
             mp_call'.result = DuplicateTx]_vars

\* C25: a call the state machine refuses leaves the hash in txx_in_state
\* and next_weight unchanged, and every later submission of the
\* transaction before the next rebase is rejected and changes nothing:
\* with DuplicateTx while next_weight < WEIGHT_LIMIT, with 'mempool full'
\* once next_weight has reached the limit.
RefusedThenRejected ==
    [][/\ RefusalKeepsHash
       /\ AppliesTx /\ Refused(hash_nosigs(mp_call'.arg)) =>
             /\ mp_call'.result =
                   IF mempool.next_weight < WEIGHT_LIMIT
                   THEN DuplicateTx ELSE MempoolFull
             /\ UNCHANGED mempool]_vars

\* C25 witness: a transaction the state machine refuses has been submitted
\* again to a mempool that other transactions have filled, and rejected
\* with 'mempool full'.
RefusedAgainWhenFull ==
    /\ mp_call.op = "apply_transaction"
    /\ ~TxTable(mp_call.arg.body).valid
    /\ Refused(hash_nosigs(mp_call.arg))
    /\ mp_call.result = MempoolFull
    /\ AcceptedHashes # {}

(***************************************************************************)
(* rebase and to_state, read off the calls of MempoolSpec.                 *)
(***************************************************************************)
Rebases == mp_call'.op = "rebase"

\* the height rebase compares the given state's height with
ProvisionalHeight == seal(mempool.provisional_state).header.height

RebaseReplaces ==
    [][(/\ Rebases
        /\ mp_call'.arg.header.height > ProvisionalHeight
        /\ is_empty(mp_call'.arg)) =>
          /\ mp_call'.result = Ok
          /\ mempool'.txx_in_state = {}
          /\ mempool'.next_weight = 0
          /\ mempool'.provisional_state = next_unsealed(mp_call'.arg)
          /\ mempool'.last_rebase = next_unsealed(mp_call'.arg)
          /\ mempool_to_state(mempool') =
                UnsealedState(mp_call'.arg.header.height + 1, {})
          /\ \A h \in mempool.txx_in_state :
                apply_transaction(mempool', h[2]).result
                   \notin {DuplicateTx, MempoolFull}]_vars

\* C27 witness: rebase has replaced the state by the successor of an empty
\* state of the greatest height and left nothing seen and no weight.
RebasedToTop ==
    /\ mp_call.op = "rebase"
    /\ mp_call.result = Ok
    /\ is_empty(mp_call.arg)
    /\ mempool = mempool_new(next_unsealed(mp_call.arg))
    /\ mempool.last_rebase.height = MaxStateHeight + 1

SetsMetadata == outcome'.op = "set_metadata"

\* between the two states of the step only the metadata of the main record
\* at key k differs
OnlyMetadataChanged(k) ==
    /\ DOMAIN backend' = DOMAIN backend
    /\ \A key \in DOMAIN backend \ {k} : backend'[key] = backend[key]
    /\ \E m \in Metadata :
          deserialize_value(backend'[k]) = [MainRecord(k) EXCEPT !.metadata = m]
    /\ cache' = cache

\* C29: set_metadata on a mutable cursor changes only the metadata field of
\* that one main record: its header, partial_state, action and children,
\* every other main record, the index, the tips table and the cache are
\* unchanged, so what holds of the tables before the call (tips, index,
\* parents, roots, cache) holds after it.
SetMetadataFrame ==
    [][SetsMetadata =>
          /\ \E k \in MainKeys : k[2] = outcome'.arg /\ OnlyMetadataChanged(k)
          /\ outcome'.result = Ok
          /\ TipsAreChildless => TipsAreChildless'
          /\ IndexConsistency => IndexConsistency'
          /\ ParentsKnowChildren => ParentsKnowChildren'
          /\ Roots' = Roots
          /\ CacheInMain => CacheInMain']_vars

\* C29 witness: set_metadata has written the metadata of a block that has
\* children, in a tree of three blocks or more.
MetadataSetOnParent ==
    /\ outcome.op = "set_metadata"
    /\ Cardinality(MainKeys) >= 3
    /\ \E k \in MainKeys :
          /\ k[2] = outcome.arg
          /\ MainRecord(k).next # {}
          /\ MainRecord(k).metadata = MaxMeta

(***************************************************************************)
(* The cursors and the structure of the tree.                              *)
(***************************************************************************)
\* what a structural mutation changes: the keys of the three tables, the
\* index and tips entries, and each main record's header and children
Structure ==
    [keys |-> DOMAIN backend,
     entries |-> [k \in DOMAIN backend \ MainKeys |-> backend[k]],
     links |-> [k \in MainKeys |->
                  [header |-> MainRecord(k).header, next |-> MainRecord(k).next]]]

\* the record the cursor was taken from is in the main table as the cursor
\* holds it
CursorRecordInPlace(c) ==
    LET k == main_key(hash(c.internal.header), c.internal.header.height)
    IN /\ k \in MainKeys
       /\ MainRecord(k) = c.internal

\* C30: while any cursor (read or mutable) onto the tree exists, no
\* apply_block, set_genesis or delete_tips takes place and the structure of
\* the tree does not change, so the record of every live cursor stays in
\* the main table with the header and the children the cursor holds.
CursorsPinTree ==
    [][/\ borrows # {} =>
             /\ outcome' = outcome \/ outcome'.op = "set_metadata"
             /\ Structure' = Structure
       /\ \A c \in borrows' : CursorRecordInPlace(c)']_vars

\* C30 witness: the caller holds a cursor onto a tip and a cursor onto its
\* parent, in a tree of three blocks or more.
CursorsOnTipAndParent ==
    /\ Cardinality(MainKeys) >= 3
    /\ \E c, d \in borrows :
          /\ c.internal.next = {}
          /\ hash(c.internal.header) \in d.internal.next
          /\ CursorRecordInPlace(c)

(***************************************************************************)
(* The accounting of the mempool.                                          *)
(***************************************************************************)
\* the sum of the weights of the transactions of the hashes in S
RECURSIVE WeightOf(_)
WeightOf(S) ==
    IF S = {} THEN 0
    ELSE LET h == CHOOSE x \in S : TRUE
         IN weight(h[2]) + WeightOf(S \ {h})

\* C40: in every reachable mempool state next_weight is the sum of the
\* weights of the transactions applied successfully since the last rebase
\* (or the construction), and txx_in_state holds the hash of each of them.
MempoolAccounting ==
    /\ mempool.next_weight = WeightOf(AcceptedHashes)
    /\ AcceptedHashes \subseteq mempool.txx_in_state

\* C40 witness: the mempool has accepted two transactions, which fill it,
\* and holds the hash of a third one the state machine refused.
TwoAcceptedOneRefused ==
    /\ Cardinality(AcceptedHashes) = 2
    /\ mempool.next_weight = WEIGHT_LIMIT
    /\ Cardinality(mempool.txx_in_state) = 3

(***************************************************************************)
(* The life of a main record, step by step.                                *)
(***************************************************************************)
\* the main records that have a child
Parents == {k \in MainKeys : MainRecord(k).next # {}}

\* the main keys the step removes
RemovedKeys == {k \in MainKeys : k \notin DOMAIN backend'}

\* the hashes among tips that delete_tips, going through tips on the tree
\* T, removes from the main table while their record has a child
RECURSIVE parents_removed(_, _, _)
parents_removed(T, tips, debug) ==
    IF tips = <<>> THEN {}
    ELSE LET current == get_block(T, Head(tips), None)
             r == remove_childless(T, Head(tips), None, debug)
             gone == /\ IsSome(current)
                     /\ current[1].next # {}
                     /\ ~IsSome(internal_get_raw(r.tree, Head(tips),
                                                 current[1].header.height))
         IN (IF gone THEN {Head(tips)} ELSE {})
            \cup (IF r.panic THEN {}
                  ELSE parents_removed(r.tree, Tail(tips), debug))

\* C34: no apply_block call removes a main record, and no delete_tips call
\* removes a main record whose children set is non-empty at the moment of
\* the removal: such a record goes only in set_genesis.
ParentsOutliveTips ==
    [][/\ outcome'.op = "apply_block" => RemovedKeys = {}
       /\ outcome'.op = "delete_tips" =>
             parents_removed(Tree, CursorHashes(get_tips(Tree)), debug_build) = {}]_vars

\* the main keys that hold a record before and after the step
KeptKeys == {k \in MainKeys : k \in DOMAIN backend'}

\* the record at main key k after the step
MainRecordAfter(k) == deserialize_value(backend'[k])

\* C35: the children set of a record that stays only grows, but for the
\* children removed: a hash leaves the children set of a record only in a
\* step that removes the main record of that child.
ChildrenOnlyGrow ==
    [][\A k \in KeptKeys :
          \A c \in MainRecord(k).next \ MainRecordAfter(k).next :
              \E r \in RemovedKeys : r[2] = c]_vars

\* C36: while a main key holds a record, every write to the key leaves the
\* header, the partial_state and the action stored there as they are; the
\* successive values differ in the children set or the metadata only.
RecordCoreImmutable ==
    [][\A k \in KeptKeys :
          /\ backend'[k].header = backend[k].header
          /\ backend'[k].partial_state = backend[k].partial_state
          /\ backend'[k].action = backend[k].action]_vars

\* C36 witness: a block has been applied on a parent that had a child
\* already and carries the metadata set_metadata writes: the parent's
\* record has been written several times.
ParentRewritten ==
    /\ outcome.op = "apply_block"
    /\ outcome.result = Ok
    /\ \E k \in MainKeys :
          /\ k[2] = Header(outcome.arg).previous
          /\ Cardinality(MainRecord(k).next) >= 2
          /\ MainRecord(k).metadata = MaxMeta
          /\ MainRecord(k).header = Header(k[2])
          /\ MainRecord(k).partial_state = partial_encoding(SealedState(Header(k[2])))

\* the children a record lists that Cursor::children cannot resolve: no
\* index entry, or no main record at the height the index gives
Dangling(k) ==
    {c \in MainRecord(k).next :
        \/ c \notin IndexHashes
        \/ main_key(c, backend[index_key(c)].height) \notin MainKeys}

\* C38: in every state reached by set_genesis, apply_block and delete_tips
\* calls, a call that panicked included, every hash in a record's children
\* set has a main record reachable through the index.
NoDanglingChildren == \A k \in MainKeys : Dangling(k) = {}

\* C38 witness: delete_tips has returned and left a record whose only child
\* is a record the call turned into a leaf; the child resolves.
ParentKeptItsChild ==
    /\ outcome.op = "delete_tips"
    /\ outcome.result = Ok
    /\ \E k \in MainKeys :
          /\ Cardinality(MainRecord(k).next) = 1
          /\ Dangling(k) = {}
          /\ \A c \in MainRecord(k).next :
                /\ c \in TipHashes
                /\ MainRecord(main_key(c, k[1] + 1)).next = {}

\* every hash with a tips entry has a main record
TipsHaveRecords == TipHashes \subseteq MainHashes

\* C39: delete_tips either completes or changes nothing, and it leaves no
\* tips entry for a hash without a main record, whatever tips it removes,
\* a tip that is the genesis included.
DeleteTipsAllOrNothing ==
    [][DeletesTips =>
          /\ outcome'.result = Ok \/ UNCHANGED <<backend, cache>>
          /\ TipsHaveRecords => TipsHaveRecords']_vars

\* the heights of the hashes in order never go down
Ascending(order) ==
    \A i, j \in 1 .. Len(order) :
        i < j => Header(order[i]).height <= Header(order[j]).height

\* the hashes in order at whose turn, removing them one after the other from
\* T, remove_orphan finds no record or finds header.previous resolvable
RECURSIVE orphans_failing(_, _)
orphans_failing(T, order) ==
    IF order = <<>> THEN {}
    ELSE LET h == Head(order)
             current == get_block(T, h, Some(Header(h).height))
             bad == \/ ~IsSome(current)
                    \/ IsSome(get_block(T, current[1].header.previous, None))
             r == remove_orphan(T, h, Some(Header(h).height), FALSE)
         IN (IF bad THEN {h} ELSE {})
            \cup (IF r.panic THEN {} ELSE orphans_failing(r.tree, Tail(order)))

\* the tree and the to_delete set of the call set_genesis(b, m) on the
\* current tree
Pruning(b, m) ==
    LET T1 == genesis_inserted(Tree, SealedState(Header(b)), m)
    IN [tree |-> T1, damned |-> to_delete(T1, b)]

\* set_genesis(b, m) on the current tree removes the damned records in
\* ascending height order and finds each of them an orphan at its turn
PrunesOrphans(b, m) ==
    LET p == Pruning(b, m)
    IN ~p.damned.panic =>
          \A order \in deletion_orders(p.damned.set) :
              /\ Ascending(order)
              /\ orphans_failing(p.tree, order) = {}

\* C37: a set_genesis call removes the damned records in ascending height
\* order, and when remove_orphan reaches one its record exists and its
\* header.previous resolves to no record, in either build.
OrphansAtRemoval ==
    [][\A b \in Headers :
          (outcome'.op = "set_genesis" /\ outcome'.arg = b)
              => \A m \in Metadata : PrunesOrphans(b, m)]_vars

\* C37 witness: in the fork scenario set_genesis on the first block of the
\* branch has returned in a build with debug assertions: it has removed the
\* chain below and beside the branch, records of four heights, and kept the
\* branch.
BranchPruned ==
    /\ debug_build
    /\ outcome = Call("set_genesis", ForkBlock(1), Ok)
    /\ TipHashes = {ForkBlock(2)}
    /\ DOMAIN cache = ForkBlocks
    /\ \A b \in ChainBlocks : ~IsSome(get_cursor(Tree, b))

\* the tables db1 and db2 hold the same entries outside the keys K
SameOutside(db1, db2, K) ==
    /\ DOMAIN db1 \ K = DOMAIN db2 \ K
    /\ \A k \in DOMAIN db1 \ K : db1[k] = db2[k]

\* the six writes of apply_block(b, m) on the current tree, one after the
\* other: S[i] is the tree after the i-th write
CommitOrder(b, m) ==
    LET S == insert_steps(Tree, SealedState(Header(b)), m)
        kB == main_key(b, Header(b).height)
        kP == ParentKey(b)
        P == Header(b).previous
    IN /\ Len(S) = 6
       \* (a) the new main record with empty children
       /\ SameOutside(S[1].backend, backend, {kB})
       /\ S[1].backend[kB] = serialize_value(
              [header |-> Header(b),
               partial_state |-> partial_encoding(SealedState(Header(b))),
               action |-> None, next |-> {}, metadata |-> m])
       /\ S[1].cache = cache
       \* (b) the new hash in the parent's children
       /\ SameOutside(S[2].backend, S[1].backend, {kP})
       /\ S[2].backend[kP] = [S[1].backend[kP] EXCEPT !.next = @ \cup {b}]
       /\ S[2].cache = cache
       \* (c) the index entry
       /\ index_key(b) \notin DOMAIN S[2].backend \/ Present(b)
       /\ SameOutside(S[3].backend, S[2].backend, {index_key(b)})
       /\ S[3].backend[index_key(b)] = serialize_height(Header(b).height)
       /\ S[3].cache = cache
       \* (d) the new tips entry
       /\ SameOutside(S[4].backend, S[3].backend, {tip_key(b)})
       /\ tip_key(b) \in DOMAIN S[4].backend
       /\ S[4].cache = cache
       \* (e) the parent's tips entry removed
       /\ SameOutside(S[5].backend, S[4].backend, {tip_key(P)})
       /\ tip_key(P) \notin DOMAIN S[5].backend
       /\ S[5].cache = cache
       \* (f) the sealed state in the cache
       /\ S[6].backend = S[5].backend
       /\ SameOutside(S[6].cache, cache, {b})
       /\ S[6].cache[b] = SealedState(Header(b))
       /\ backend' = S[6].backend
       /\ cache' = S[6].cache

\* C31: a successful apply_block writes, in this order, the new main
\* record with empty children, the new hash into the parent's children, the
\* index entry, the new tips entry, the removal of the parent's tips entry
\* and the sealed state into the cache.
WritesInOrder ==
    [][\A b \in Hashes, m \in Metadata :
          (Applies(b) /\ outcome'.result = Ok /\ ApplyBlock(b, m))
              => CommitOrder(b, m)]_vars

\* C31 witness: a block of height 2 has been applied on a parent that was a
\* tip: the block has its record, its index, tips and cache entries, the
\* parent lists it alone and has lost its tips entry.
GrandchildApplied ==
    /\ outcome.op = "apply_block"
    /\ outcome.result = Ok
    /\ Header(outcome.arg).height = 2
    /\ Present(outcome.arg)
    /\ outcome.arg \in IndexHashes \cap TipHashes \cap DOMAIN cache
    /\ ParentKey(outcome.arg) \in MainKeys
    /\ MainRecord(ParentKey(outcome.arg)).next = {outcome.arg}
    /\ Header(outcome.arg).previous \notin TipHashes

\* the hashes with an entry in the tips table of the backend db
TipsOf(db) == {h \in AllHashes : tip_key(h) \in DOMAIN db}

\* the tips of db that have a record reachable through the index
TipRecords(db) ==
    {h \in TipsOf(db) :
        /\ index_key(h) \in DOMAIN db
        /\ main_key(h, db[index_key(h)].height) \in DOMAIN db}

\* h is an ancestor of another tip of db: its header is in that tip's
\* state history
AncestorOfTip(db, h) == \E t \in TipRecords(db) \ {h} : h \in Ancestors(t)

\* C33: after BlockTree::new the tips table holds no hash that is an
\* ancestor of another tip, and every tip of the backend handed to it that
\* is not an ancestor of another tip is still in the tips table.
TipCleanup ==
    [][outcome'.op = "new" =>
          /\ \A h \in TipsOf(backend') : ~AncestorOfTip(backend', h)
          /\ outcome'.arg = NoHash =>
                \A h \in TipsOf(backend) :
                    ~AncestorOfTip(backend, h) => h \in TipsOf(backend')]_vars

\* the tip, index and parent invariants of the tables
TablesSound == TipsAreChildless /\ IndexConsistency /\ ParentsKnowChildren

\* C32: when apply_block on a sound tree is interrupted after any number of
\* the six writes of its commit and the tree is constructed again from the
\* backend, the tree is sound again: the startup pass has removed the main
\* record left without an index entry and the tips entries left wrong.
CrashRecovery ==
    [][(outcome'.op = "new" /\ outcome'.arg # NoHash /\ TablesSound)
          => TablesSound']_vars

====
